---- MODULE Spec2Model ----
(***************************************************************************)
(* The WebSocket hub of src/internal/websocket/client.go as a state        *)
(* machine: the control loop Hub.Run with its handlers registerClient,     *)
(* unregisterClient, broadcastMessage and shutdown, the room operations    *)
(* JoinRoom and LeaveRoom that callers run under the hub's lock, the       *)
(* producers that send on the hub's channels, and the write path that      *)
(* drains a connection's outbound buffer.                                  *)
(*                                                                         *)
(* Hub.Register and Hub.Unregister are unbuffered channels: a send on them *)
(* completes only when Hub.Run receives in its select, so the send and the *)
(* receive are one step (HubRegister, HubUnregister), which is enabled     *)
(* only while Hub.Run stands at its select; a sender that finds the loop   *)
(* elsewhere waits.  Time stamps (Message.Timestamp, LastMessageTime) are  *)
(* left out.                                                               *)
(*                                                                         *)
(* Several environments are checked: Spec (FairSpec with the loop's        *)
(* fairness) has every producer at the base capacities; LateRegisterSpec   *)
(* has callers that reach serveWs after Hub.Run returned; OrderSpec has    *)
(* channels of capacity two and a producer that numbers its broadcasts;    *)
(* SnapshotSpec has holders of GetMetrics results and registerClient in    *)
(* two steps; ClientSpec has read paths that handle ping and subscribe     *)
(* frames; ReadPumpSpec has read paths that end; BroadcastCallSpec has     *)
(* callers standing at the send on Hub.Broadcast; CacheSpec has readers    *)
(* of a connection's membership cache; ConnSpec has connections that       *)
(* serveWs brings in once each, with a write path in steps and transport   *)
(* errors; FrameSpec has read paths that get malformed frames; CountSpec   *)
(* has read paths whose counter increment is a read and a write.           *)
(***************************************************************************)
EXTENDS Integers, Sequences, FiniteSets, TLC

\* ---------------------------------------------------------------- bounds
NumClients == 2         \* Client objects that exist (NewClient was called)
sendBufferSize == 1     \* capacity of Client.send (256 in the source)
BroadcastCap == 1       \* capacity of Hub.Broadcast (1000 in the source)
MaxRegisters == 2       \* Register events the producers issue in one run
MaxSent == 2            \* broadcasts are issued while TotalMessagesSent is below this
MaxRoomCount == 1       \* join/leave callers keep RoomCounts within 1-MaxRoomCount .. MaxRoomCount
OrderSendCap == 2       \* capacity of Client.send where delivery order is checked
OrderBroadcastCap == 2  \* capacity of Hub.Broadcast where delivery order is checked
MaxIssued == 3          \* broadcasts the numbering producer issues in one run
MaxSnapshots == 2       \* holders of a metrics snapshot
MaxRecv == 2            \* frames the read paths handle in one run
MaxHandled == 3         \* frames the read paths handle where the counting is in two steps
SubscribeRoomCount == 2 \* subscribe frames arrive while RoomCounts of the room is below this

Clients == 1 .. NumClients
\* The callers that keep a value returned by GetMetrics.
Holders == 1 .. MaxSnapshots
\* A holder that has no snapshot yet.
NoSnapshot == [ref |-> "none"]
\* The value a holder writes into its snapshot; no live counter reaches it.
WrittenCount == 0 - 7
NoClient == 0
\* Room names; the empty string is a name a caller can pass like any other.
RoomNames == {"", "s1"}
\* (messageType, data) pairs handed to BroadcastToRoom / BroadcastToAll.
Payloads == {<<"notice", "{x:1}">>}

VARIABLES
    clients,        \* Hub.clients: the registry (keys of the map)
    rooms,          \* Hub.rooms: room name -> member set, for the names present
    clientRooms,    \* Client.rooms of every client (keys of the map)
    send,           \* Client.send: buffered messages of every client
    sendClosed,     \* Client.send was closed
    Broadcast,      \* Hub.Broadcast: buffered *Message values
    metrics,        \* Hub.metrics
    ctxDone,        \* ctx.Done() is closed
    hubPc,          \* where the goroutine of Hub.Run stands
    blockedOn,      \* the client Hub.Run is sending on Hub.Unregister, if any
    nRegisters,     \* history: Register events processed
    nUnregisterHits,\* history: Unregister events that found the client registered
    last,           \* history: the kind of step taken last
    registerWait,   \* callers standing at `hub.Register <- client` after Hub.Run returned
    nIssued,        \* history: broadcasts the numbering producer has issued
    caps,           \* capacities the channels were made with: [send, bcast]
    snapshots,      \* the *HubMetrics values GetMetrics has returned, by holder
    readPc,         \* where the goroutine of each Client.ReadPump stands
    broadcastWait,  \* messages whose caller stands at `h.Broadcast <- message`
    reading,        \* clients whose mu a caller of IsInRoom/GetRooms holds (RLock)
    writePc,        \* where the goroutine of each Client.WritePump stands
    wire,           \* what each WritePump has written to its transport, by frame
    nHandled        \* history: frames the read paths have decoded and handled

vars == <<clients, rooms, clientRooms, send, sendClosed, Broadcast, metrics,
          ctxDone, hubPc, blockedOn, nRegisters, nUnregisterHits, last,
          registerWait, nIssued, caps, snapshots, readPc, broadcastWait, reading,
          writePc, wire, nHandled>>

\* A position of ReadPump that carries no pending acknowledgment; `loaded`
\* holds the counter value the goroutine has read for its `++`.
At(pc) == [at |-> pc, action |-> "", room |-> "", acked |-> {}, loaded |-> 0]

\* A position of WritePump: `cur` holds the message received from Client.send
\* and not yet written, `why` the reason WritePump returned for.
WriteAt(pc, cur, why) == [at |-> pc, cur |-> cur, why |-> why]

\* ------------------------------------------------------------ construction
\* NewHub, and NewClient for every client, with Client.send made with
\* capacity sendCap and Hub.Broadcast with capacity bcastCap.
NewHub(sendCap, bcastCap) ==
    /\ clients = {}
    /\ rooms = << >>
    /\ clientRooms = [c \in Clients |-> {}]
    /\ send = [c \in Clients |-> << >>]
    /\ sendClosed = [c \in Clients |-> FALSE]
    /\ Broadcast = << >>
    /\ metrics = [ActiveConnections |-> 0, TotalConnections |-> 0,
                  TotalMessagesSent |-> 0, TotalMessagesRecv |-> 0,
                  RoomCounts |-> << >>]
    /\ ctxDone = FALSE
    /\ hubPc = "select"
    /\ blockedOn = NoClient
    /\ nRegisters = 0
    /\ nUnregisterHits = 0
    /\ last = "init"
    /\ registerWait = {}
    /\ nIssued = 0
    /\ caps = [send |-> sendCap, bcast |-> bcastCap]
    /\ snapshots = [i \in Holders |-> NoSnapshot]
    /\ readPc = [c \in Clients |-> At("idle")]
    /\ broadcastWait = {}
    /\ reading = {}
    /\ writePc = [c \in Clients |-> WriteAt("idle", << >>, "")]
    /\ wire = [c \in Clients |-> << >>]
    /\ nHandled = 0

Init == NewHub(sendBufferSize, BroadcastCap)

\* A push on a closed channel panics; nothing recovers, the process is gone.
Running == hubPc # "panic"
\* Hub.mu is free unless Hub.Run stands inside broadcastMessage holding RLock.
LockFree == hubPc \in {"select", "done"}

\* ------------------------------------------------------------ map helpers
\* delete(m, k) on a map held as a function.
MapDelete(m, k) == [x \in (DOMAIN m) \ {k} |-> m[x]]
\* m[k] = v on a map held as a function.
MapPut(m, k, v) == [x \in (DOMAIN m) \cup {k} |-> IF x = k THEN v ELSE m[x]]
\* m[k] with Go's zero value for an absent key.
CountOf(m, k) == IF k \in DOMAIN m THEN m[k] ELSE 0

\* json.Marshal of a Message: the fields in declaration order as key/value
\* pairs; `room` carries omitempty, so an empty Room is left out.
Marshal(m) ==
    IF m.room = ""
    THEN << <<"type", m.type>>, <<"data", m.data>> >>
    ELSE << <<"type", m.type>>, <<"room", m.room>>, <<"data", m.data>> >>

\* Every order in which `range` can visit the keys of a map.
RECURSIVE Orders(_)
Orders(S) ==
    IF S = {} THEN { << >> }
    ELSE UNION { { <<x>> \o o : o \in Orders(S \ {x}) } : x \in S }

\* ------------------------------------------------------------ hub handlers
\* registerClient with the ActiveConnections++ left out.
registerClientNoActive(c) ==
    /\ clients' = clients \cup {c}
    /\ metrics' = [metrics EXCEPT !.TotalConnections = @ + 1]

\* Hub.registerClient.
registerClient(c) ==
    /\ clients' = clients \cup {c}
    /\ metrics' = [metrics EXCEPT !.ActiveConnections = @ + 1,
                                  !.TotalConnections = @ + 1]

\* removeFromRoom without its `if len(roomClients) == 0` block: an emptied
\* room keeps its entry in the index and in RoomCounts.
removeFromRoomKeepEmpty(st, room, c) ==
    IF room \in DOMAIN st.rooms
    THEN [rooms |-> MapPut(st.rooms, room, st.rooms[room] \ {c}),
          clientRooms |-> [st.clientRooms EXCEPT ![c] = @ \ {room}],
          RoomCounts |-> MapPut(st.RoomCounts, room, CountOf(st.RoomCounts, room) - 1)]
    ELSE st

\* removeFromRoom deleting the room's entry whether or not members are left.
removeFromRoomDropRoom(st, room, c) ==
    IF room \in DOMAIN st.rooms
    THEN [rooms |-> MapDelete(st.rooms, room),
          clientRooms |-> [st.clientRooms EXCEPT ![c] = @ \ {room}],
          RoomCounts |-> MapDelete(st.RoomCounts, room)]
    ELSE st

\* Hub.removeFromRoom on st = [rooms, clientRooms, RoomCounts].
removeFromRoom(st, room, c) ==
    IF room \in DOMAIN st.rooms
    THEN LET roomClients == st.rooms[room] \ {c}
             cr == [st.clientRooms EXCEPT ![c] = @ \ {room}]
             counts == MapPut(st.RoomCounts, room, CountOf(st.RoomCounts, room) - 1)
         IN IF roomClients = {}
            THEN [rooms |-> MapDelete(st.rooms, room), clientRooms |-> cr,
                  RoomCounts |-> MapDelete(counts, room)]
            ELSE [rooms |-> MapPut(st.rooms, room, roomClients), clientRooms |-> cr,
                  RoomCounts |-> counts]
    ELSE st

\* The loop `for room := range client.rooms { h.removeFromRoom(room, client) }`.
RECURSIVE removeFromRooms(_, _, _)
removeFromRooms(st, rs, c) ==
    IF rs = {} THEN st
    ELSE LET room == CHOOSE r \in rs : TRUE
         IN removeFromRooms(removeFromRoom(st, room, c), rs \ {room}, c)

\* unregisterClient without its `if _, ok := h.clients[client]; ok` test:
\* the counter is decremented whether or not the client was registered.
unregisterClientUnguarded(c) ==
    LET st == removeFromRooms([rooms |-> rooms, clientRooms |-> clientRooms,
                               RoomCounts |-> metrics.RoomCounts],
                              clientRooms[c], c)
    IN /\ rooms' = st.rooms
       /\ clientRooms' = st.clientRooms
       /\ clients' = clients \ {c}
       /\ sendClosed' = [sendClosed EXCEPT ![c] = TRUE]
       /\ metrics' = [metrics EXCEPT !.RoomCounts = st.RoomCounts,
                                     !.ActiveConnections = @ - 1]
       /\ nUnregisterHits' = IF c \in clients THEN nUnregisterHits + 1
                             ELSE nUnregisterHits
       /\ UNCHANGED hubPc

\* unregisterClient closing the channel without its test of h.clients.
unregisterClientCloseAlways(c) ==
    LET st == removeFromRooms([rooms |-> rooms, clientRooms |-> clientRooms,
                               RoomCounts |-> metrics.RoomCounts],
                              clientRooms[c], c)
    IN /\ rooms' = st.rooms
       /\ clientRooms' = st.clientRooms
       /\ clients' = clients \ {c}
       /\ IF sendClosed[c]
          THEN /\ hubPc' = "panic"
               /\ metrics' = [metrics EXCEPT !.RoomCounts = st.RoomCounts]
               /\ UNCHANGED sendClosed
          ELSE /\ sendClosed' = [sendClosed EXCEPT ![c] = TRUE]
               /\ metrics' = [metrics EXCEPT !.RoomCounts = st.RoomCounts,
                                             !.ActiveConnections = @ - 1]
               /\ UNCHANGED hubPc
       /\ nUnregisterHits' = IF c \in clients THEN nUnregisterHits + 1
                             ELSE nUnregisterHits

\* unregisterClient without its loop over client.rooms.
unregisterClientKeepRooms(c) ==
    IF c \in clients
    THEN /\ clients' = clients \ {c}
         /\ IF sendClosed[c]
            THEN hubPc' = "panic" /\ UNCHANGED <<sendClosed, metrics>>
            ELSE /\ sendClosed' = [sendClosed EXCEPT ![c] = TRUE]
                 /\ metrics' = [metrics EXCEPT !.ActiveConnections = @ - 1]
                 /\ UNCHANGED hubPc
         /\ nUnregisterHits' = nUnregisterHits + 1
         /\ UNCHANGED <<rooms, clientRooms>>
    ELSE UNCHANGED <<rooms, clientRooms, clients, sendClosed, metrics, hubPc,
                     nUnregisterHits>>

\* Hub.unregisterClient.  close(client.send) on a channel that is already
\* closed panics, before the counter is decremented.
unregisterClient(c) ==
    IF c \in clients
    THEN LET st == removeFromRooms([rooms |-> rooms, clientRooms |-> clientRooms,
                                    RoomCounts |-> metrics.RoomCounts],
                                   clientRooms[c], c)
         IN /\ rooms' = st.rooms
            /\ clientRooms' = st.clientRooms
            /\ clients' = clients \ {c}
            /\ IF sendClosed[c]
               THEN /\ hubPc' = "panic"
                    /\ metrics' = [metrics EXCEPT !.RoomCounts = st.RoomCounts]
                    /\ UNCHANGED sendClosed
               ELSE /\ sendClosed' = [sendClosed EXCEPT ![c] = TRUE]
                    /\ metrics' = [metrics EXCEPT !.RoomCounts = st.RoomCounts,
                                                  !.ActiveConnections = @ - 1]
                    /\ UNCHANGED hubPc
            /\ nUnregisterHits' = nUnregisterHits + 1
    ELSE UNCHANGED <<rooms, clientRooms, clients, sendClosed, metrics, hubPc,
                     nUnregisterHits>>

\* The target list of Hub.broadcastMessage: the members of message.Room when
\* the name is not empty (none when the room is absent), else the registry.
targetClients(message) ==
    IF message.room # ""
    THEN IF message.room \in DOMAIN rooms THEN rooms[message.room] ELSE {}
    ELSE clients

\* The send loop counting a refused push like a successful one.
RECURSIVE fanOutCountRefused(_, _, _, _)
fanOutCountRefused(order, messageBytes, buf, sent) ==
    IF order = << >>
    THEN [send |-> buf, sent |-> sent, pc |-> "select", on |-> NoClient]
    ELSE LET client == Head(order)
         IN IF sendClosed[client]
            THEN [send |-> buf, sent |-> sent, pc |-> "panic", on |-> client]
            ELSE IF Len(buf[client]) < caps.send
            THEN fanOutCountRefused(Tail(order), messageBytes,
                        [buf EXCEPT ![client] = Append(@, messageBytes)], sent + 1)
            ELSE [send |-> buf, sent |-> sent + 1, pc |-> "blocked", on |-> client]

\* The send loop of Hub.broadcastMessage over the targets in `order`:
\* a push on a closed channel panics, a push with room in the buffer appends
\* and counts, and a full buffer takes the default case, where the loop
\* sends the client on Hub.Unregister (unbuffered).
RECURSIVE fanOut(_, _, _, _)
fanOut(order, messageBytes, buf, sent) ==
    IF order = << >>
    THEN [send |-> buf, sent |-> sent, pc |-> "select", on |-> NoClient]
    ELSE LET client == Head(order)
         IN IF sendClosed[client]
            THEN [send |-> buf, sent |-> sent, pc |-> "panic", on |-> client]
            ELSE IF Len(buf[client]) < caps.send
            THEN fanOut(Tail(order), messageBytes,
                        [buf EXCEPT ![client] = Append(@, messageBytes)], sent + 1)
            ELSE [send |-> buf, sent |-> sent, pc |-> "blocked", on |-> client]

\* Hub.broadcastMessage for the targets visited in `order`.
broadcastMessage(message, order) ==
    LET r == fanOut(order, Marshal(message), send, metrics.TotalMessagesSent)
    IN /\ send' = r.send
       /\ metrics' = [metrics EXCEPT !.TotalMessagesSent = r.sent]
       /\ hubPc' = r.pc
       /\ blockedOn' = r.on

\* Hub.shutdown: closes every registered client's channel (a second close
\* panics) and replaces both maps; the counters are left as they are.
shutdown ==
    IF \E c \in clients : sendClosed[c]
    THEN /\ hubPc' = "panic"
         /\ UNCHANGED <<clients, rooms, sendClosed>>
    ELSE /\ sendClosed' = [c \in Clients |-> sendClosed[c] \/ c \in clients]
         /\ clients' = {}
         /\ rooms' = << >>
         /\ hubPc' = "done"

\* ------------------------------------------------- Hub.Run: the select cases
\* case <-ctx.Done(): shutdown, then return.
HubShutdown ==
    /\ hubPc = "select" /\ ctxDone
    /\ shutdown
    /\ last' = "shutdown"
    /\ UNCHANGED <<nHandled, writePc, wire, snapshots, readPc, broadcastWait, reading, registerWait, nIssued, caps, clientRooms, send, Broadcast, metrics, ctxDone, blockedOn,
                   nRegisters, nUnregisterHits>>

\* case client := <-h.Register, with the producer's `hub.Register <- client`.
HubRegister(c) ==
    /\ hubPc = "select"
    /\ nRegisters < MaxRegisters
    /\ registerClient(c)
    /\ nRegisters' = nRegisters + 1
    /\ last' = "register"
    /\ UNCHANGED <<nHandled, writePc, wire, snapshots, readPc, broadcastWait, reading, registerWait, nIssued, caps, rooms, clientRooms, send, sendClosed, Broadcast, ctxDone, hubPc,
                   blockedOn, nUnregisterHits>>

\* case client := <-h.Unregister, with the producer's `c.hub.Unregister <- c`.
HubUnregister(c) ==
    /\ hubPc = "select"
    /\ unregisterClient(c)
    /\ last' = IF c \notin clients THEN "unregisterNoop"
                ELSE IF clientRooms[c] # {} THEN "unregisterRooms"
                ELSE "unregister"
    /\ UNCHANGED <<nHandled, writePc, wire, snapshots, readPc, broadcastWait, reading, registerWait, nIssued, caps, send, Broadcast, ctxDone, blockedOn, nRegisters>>

\* Hub.Run taking the newest message of Hub.Broadcast instead of the oldest.
HubBroadcastNewestFirst ==
    /\ hubPc = "select" /\ Broadcast # << >>
    /\ Broadcast' = SubSeq(Broadcast, 1, Len(Broadcast) - 1)
    /\ \E order \in Orders(targetClients(Broadcast[Len(Broadcast)])) :
          broadcastMessage(Broadcast[Len(Broadcast)], order)
    /\ last' = "broadcast"
    /\ UNCHANGED <<nHandled, writePc, wire, snapshots, readPc, broadcastWait, reading, registerWait, nIssued, caps, clients, rooms, clientRooms,
                   sendClosed, ctxDone, nRegisters, nUnregisterHits>>

\* case message := <-h.Broadcast
HubBroadcast ==
    /\ hubPc = "select" /\ Broadcast # << >>
    /\ Broadcast' = Tail(Broadcast)
    /\ \E order \in Orders(targetClients(Head(Broadcast))) :
          broadcastMessage(Head(Broadcast), order)
    /\ last' = "broadcast"
    /\ UNCHANGED <<nHandled, writePc, wire, snapshots, readPc, broadcastWait, reading, registerWait, nIssued, caps, clients, rooms, clientRooms, sendClosed, ctxDone, nRegisters,
                   nUnregisterHits>>

\* case <-ticker.C: logMetrics reads a snapshot and writes nothing.
HubTick ==
    /\ hubPc = "select"
    /\ last # "tick"
    /\ last' = "tick"
    /\ UNCHANGED <<nHandled, writePc, wire, snapshots, readPc, broadcastWait, reading, registerWait, nIssued, caps, clients, rooms, clientRooms, send, sendClosed, Broadcast, metrics,
                   ctxDone, hubPc, blockedOn, nRegisters, nUnregisterHits>>

\* ------------------------------------------------------------- producers
\* The send `h.Broadcast <- message` both broadcast calls end with; it waits
\* while the channel is full.
enqueue(message) ==
    /\ Running
    /\ Len(Broadcast) < caps.bcast
    /\ metrics.TotalMessagesSent < MaxSent
    /\ Broadcast' = Append(Broadcast, message)
    /\ last' = "enqueue"
    /\ UNCHANGED <<nHandled, writePc, wire, snapshots, readPc, broadcastWait, reading, registerWait, nIssued, caps, clients, rooms, clientRooms, send, sendClosed, metrics, ctxDone,
                   hubPc, blockedOn, nRegisters, nUnregisterHits>>

\* Hub.BroadcastToRoom.  (`call` is history: the method that built the
\* Message; the hub's code cannot read it.)
BroadcastToRoom(room, p) ==
    enqueue([type |-> p[1], room |-> room, data |-> p[2], call |-> "BroadcastToRoom"])

\* Hub.BroadcastToAll: Room keeps its zero value.
BroadcastToAll(p) ==
    enqueue([type |-> p[1], room |-> "", data |-> p[2], call |-> "BroadcastToAll"])

\* The statements of Hub.JoinRoom between Lock and Unlock.
JoinRoomLocked(room, c) ==
    /\ rooms' = MapPut(rooms, room,
                       (IF room \in DOMAIN rooms THEN rooms[room] ELSE {}) \cup {c})
    /\ clientRooms' = [clientRooms EXCEPT ![c] = @ \cup {room}]
    /\ metrics' = [metrics EXCEPT !.RoomCounts =
                       MapPut(@, room, CountOf(@, room) + 1)]

\* Hub.JoinRoom, run by the caller under Hub.mu.
JoinRoom(room, c) ==
    /\ Running /\ LockFree
    /\ CountOf(metrics.RoomCounts, room) < MaxRoomCount
    /\ JoinRoomLocked(room, c)
    /\ last' = IF room \in DOMAIN rooms /\ c \in rooms[room] THEN "joinAgain"
                ELSE "join"
    /\ UNCHANGED <<nHandled, writePc, wire, snapshots, readPc, broadcastWait, reading, registerWait, nIssued, caps, clients, send, sendClosed, Broadcast, ctxDone, hubPc, blockedOn,
                   nRegisters, nUnregisterHits>>

\* Hub.LeaveRoom, run by the caller under Hub.mu.
LeaveRoom(room, c) ==
    /\ Running /\ LockFree
    /\ room \in DOMAIN rooms => CountOf(metrics.RoomCounts, room) > 1 - MaxRoomCount
    /\ LET st == removeFromRoom([rooms |-> rooms, clientRooms |-> clientRooms,
                                 RoomCounts |-> metrics.RoomCounts], room, c)
       IN /\ rooms' = st.rooms
          /\ clientRooms' = st.clientRooms
          /\ metrics' = [metrics EXCEPT !.RoomCounts = st.RoomCounts]
    /\ last' = IF room \notin DOMAIN rooms \/ c \notin rooms[room] THEN "leaveNoop"
                ELSE IF rooms[room] = {c} THEN "leaveLast"
                ELSE "leave"
    /\ UNCHANGED <<nHandled, writePc, wire, snapshots, readPc, broadcastWait, reading, registerWait, nIssued, caps, clients, send, sendClosed, Broadcast, ctxDone, hubPc, blockedOn,
                   nRegisters, nUnregisterHits>>

\* Client.WritePump takes the next message off Client.send.
WritePumpRecv(c) ==
    /\ Running
    /\ send[c] # << >>
    /\ send' = [send EXCEPT ![c] = Tail(@)]
    /\ last' = "writePump"
    /\ UNCHANGED <<nHandled, writePc, wire, snapshots, readPc, broadcastWait, reading, registerWait, nIssued, caps, clients, rooms, clientRooms, sendClosed, Broadcast, metrics,
                   ctxDone, hubPc, blockedOn, nRegisters, nUnregisterHits>>

\* main calls cancel() on SIGINT/SIGTERM.
Cancel ==
    /\ Running
    /\ ~ctxDone
    /\ ctxDone' = TRUE
    /\ last' = "cancel"
    /\ UNCHANGED <<nHandled, writePc, wire, snapshots, readPc, broadcastWait, reading, registerWait, nIssued, caps, clients, rooms, clientRooms, send, sendClosed, Broadcast, metrics,
                   hubPc, blockedOn, nRegisters, nUnregisterHits>>

\* serveWs reaches `hub.Register <- client` after Hub.Run has returned: the
\* channel is unbuffered and its only receiver is gone, so the caller stands
\* at the send (WritePump and ReadPump are not started).
RegisterSend(c) ==
    /\ hubPc = "done"
    /\ c \notin registerWait
    /\ registerWait' = registerWait \cup {c}
    /\ last' = "registerSend"
    /\ UNCHANGED <<nHandled, writePc, wire, snapshots, readPc, broadcastWait, reading, nIssued, caps, clients, rooms, clientRooms, send, sendClosed,
                   Broadcast, metrics, ctxDone, hubPc, blockedOn, nRegisters,
                   nUnregisterHits>>

Next ==
    \/ HubShutdown
    \/ \E c \in Clients : HubRegister(c)
    \/ \E c \in Clients : HubUnregister(c)
    \/ HubBroadcast
    \/ HubTick
    \/ \E room \in RoomNames, p \in Payloads : BroadcastToRoom(room, p)
    \/ \E p \in Payloads : BroadcastToAll(p)
    \/ \E room \in RoomNames, c \in Clients : JoinRoom(room, c)
    \/ \E room \in RoomNames, c \in Clients : LeaveRoom(room, c)
    \/ \E c \in Clients : WritePumpRecv(c)
    \/ Cancel

Spec == Init /\ [][Next]_vars

\* The loop of Hub.Run takes a step whenever it can, and a select case that
\* stays ready is eventually the one chosen (ctx.Done() stays ready once closed).
HubStep == HubShutdown \/ HubBroadcast \/ HubTick
FairSpec == Spec /\ WF_vars(HubStep) /\ WF_vars(HubShutdown) /\ WF_vars(HubBroadcast)

\* The hub with connections that come and go and callers that still arrive
\* at serveWs after Hub.Run has returned; no broadcasts are issued.
LateRegisterNext ==
    \/ HubShutdown
    \/ \E c \in Clients : HubRegister(c)
    \/ \E c \in Clients : HubUnregister(c)
    \/ HubTick
    \/ \E room \in RoomNames, c \in Clients : JoinRoom(room, c)
    \/ \E room \in RoomNames, c \in Clients : LeaveRoom(room, c)
    \/ \E c \in Clients : RegisterSend(c)
    \/ Cancel

LateRegisterSpec ==
    Init /\ [][LateRegisterNext]_vars /\ WF_vars(HubStep) /\ WF_vars(HubShutdown)

\* One producer goroutine calling Hub.BroadcastToRoom again and again; the
\* data of its n-th call is n.
IssueBroadcastToRoom(room) ==
    /\ Running
    /\ nIssued < MaxIssued
    /\ Len(Broadcast) < caps.bcast
    /\ Broadcast' = Append(Broadcast, [type |-> "notice", room |-> room,
                                       data |-> nIssued + 1,
                                       call |-> "BroadcastToRoom"])
    /\ nIssued' = nIssued + 1
    /\ last' = "enqueue"
    /\ UNCHANGED <<nHandled, writePc, wire, snapshots, readPc, broadcastWait, reading, registerWait, caps, clients, rooms, clientRooms, send, sendClosed,
                   metrics, ctxDone, hubPc, blockedOn, nRegisters, nUnregisterHits>>

\* The hub with channels of capacity two, connections that register, join
\* and leave rooms and drain their buffers, and the numbering producer as the
\* only source of broadcasts.
OrderInit == NewHub(OrderSendCap, OrderBroadcastCap)

OrderNext ==
    \/ \E c \in Clients : HubRegister(c)
    \/ HubBroadcast
    \/ \E room \in RoomNames : IssueBroadcastToRoom(room)
    \/ \E room \in RoomNames, c \in Clients : JoinRoom(room, c)
    \/ \E room \in RoomNames, c \in Clients : LeaveRoom(room, c)
    \/ \E c \in Clients : WritePumpRecv(c)

OrderSpec == OrderInit /\ [][OrderNext]_vars

\* ------------------------------------------------- the connection's paths
\* json.Marshal of the Message that sendMessage builds: Room is empty and
\* left out, and the entries of Data follow as key/value pairs.
MarshalDirect(messageType, data) == << <<"type", messageType>> >> \o data

\* sendMessage with a push that does not test for a full buffer.
sendMessageOverfill(c, messageType, data) ==
    IF sendClosed[c]
    THEN hubPc' = "panic" /\ UNCHANGED send
    ELSE /\ send' = [send EXCEPT ![c] = Append(@, MarshalDirect(messageType, data))]
         /\ UNCHANGED hubPc

\* Client.sendMessage: `select { case c.send <- messageBytes: default: }`;
\* a closed channel makes the send case panic.
sendMessage(c, messageType, data) ==
    IF sendClosed[c]
    THEN hubPc' = "panic" /\ UNCHANGED send
    ELSE IF Len(send[c]) < caps.send
    THEN /\ send' = [send EXCEPT ![c] = Append(@, MarshalDirect(messageType, data))]
         /\ UNCHANGED hubPc
    ELSE UNCHANGED <<send, hubPc>>

\* The data of a pong: the server's time stamp.
PongData == << <<"data.timestamp", "now">> >>
\* The data sendAck builds.
AckData(action, room) == << <<"data.action", action>>, <<"data.room", room>> >>

\* serveWs runs `go client.ReadPump()` after the Register send returned.
ReadPumpStart(c) ==
    /\ Running
    /\ readPc[c].at = "idle"
    /\ c \in clients
    /\ readPc' = [readPc EXCEPT ![c].at = "read"]
    /\ last' = "readPumpStart"
    /\ UNCHANGED <<nHandled, writePc, wire, clients, rooms, clientRooms, send, sendClosed, Broadcast, metrics,
                   ctxDone, hubPc, blockedOn, nRegisters, nUnregisterHits,
                   registerWait, nIssued, caps, snapshots, broadcastWait, reading>>

\* A ping frame handled with the pong pushed to every open buffer that has
\* room, not only the sender's.
HandlePingToAll(c) ==
    /\ Running
    /\ readPc[c].at = "read"
    /\ metrics.TotalMessagesRecv < MaxRecv
    /\ send' = [d \in Clients |->
                   IF ~sendClosed[d] /\ Len(send[d]) < caps.send
                   THEN Append(send[d], MarshalDirect("pong", PongData))
                   ELSE send[d]]
    /\ metrics' = [metrics EXCEPT !.TotalMessagesRecv = @ + 1]
    /\ last' = "pong"
    /\ UNCHANGED <<nHandled, writePc, wire, clients, rooms, clientRooms, sendClosed, Broadcast, ctxDone, hubPc,
                   blockedOn, nRegisters, nUnregisterHits,
                   registerWait, nIssued, caps, snapshots, readPc, broadcastWait,
                   reading>>

\* ReadPump reads a ping frame: handleMessage answers with sendMessage("pong"),
\* then ReadPump counts the frame.
HandlePing(c) ==
    /\ Running
    /\ readPc[c].at = "read"
    /\ metrics.TotalMessagesRecv < MaxRecv
    /\ sendMessage(c, "pong", PongData)
    /\ metrics' = IF sendClosed[c] THEN metrics
                  ELSE [metrics EXCEPT !.TotalMessagesRecv = @ + 1]
    /\ last' = IF sendClosed[c] THEN "pongPanic"
                ELSE IF Len(send[c]) < caps.send THEN "pong"
                ELSE "pongDropped"
    /\ UNCHANGED <<nHandled, writePc, wire, clients, rooms, clientRooms, sendClosed, Broadcast, ctxDone,
                   blockedOn, nRegisters, nUnregisterHits,
                   registerWait, nIssued, caps, snapshots, readPc, broadcastWait,
                   reading>>

\* ReadPump reads a subscribe frame with a room: handleMessage calls
\* Hub.JoinRoom, which returns; the ack is the next statement.
HandleSubscribe(c, room) ==
    /\ Running /\ LockFree
    /\ readPc[c].at = "read"
    /\ metrics.TotalMessagesRecv < MaxRecv
    /\ CountOf(metrics.RoomCounts, room) < SubscribeRoomCount
    /\ JoinRoomLocked(room, c)
    /\ readPc' = [readPc EXCEPT ![c].at = "sendAck", ![c].action = "subscribed",
                                ![c].room = room]
    /\ last' = "subscribe"
    /\ UNCHANGED <<nHandled, writePc, wire, clients, send, sendClosed, Broadcast, ctxDone, hubPc,
                   blockedOn, nRegisters, nUnregisterHits,
                   registerWait, nIssued, caps, snapshots, broadcastWait, reading>>

\* handleMessage goes on with c.sendAck(action, room), then ReadPump counts
\* the frame.  (`acked` is history: the rooms whose "subscribed" ack was put
\* into the buffer.)
SendAck(c) ==
    /\ Running
    /\ readPc[c].at = "sendAck"
    /\ sendMessage(c, "ack", AckData(readPc[c].action, readPc[c].room))
    /\ metrics' = IF sendClosed[c] THEN metrics
                  ELSE [metrics EXCEPT !.TotalMessagesRecv = @ + 1]
    /\ readPc' = IF sendClosed[c] THEN readPc
                 ELSE [readPc EXCEPT
                         ![c].at = "read", ![c].action = "", ![c].room = "",
                         ![c].acked = IF Len(send[c]) < caps.send
                                      THEN @ \cup {readPc[c].room} ELSE @]
    /\ last' = IF sendClosed[c] THEN "ackPanic"
                ELSE IF Len(send[c]) < caps.send THEN "ack"
                ELSE "ackDropped"
    /\ UNCHANGED <<nHandled, writePc, wire, clients, rooms, clientRooms, sendClosed, Broadcast, ctxDone,
                   blockedOn, nRegisters, nUnregisterHits,
                   registerWait, nIssued, caps, snapshots, broadcastWait, reading>>

\* Hub.BroadcastToRoom.  (`after` is history: the connections whose buffer
\* had got the "subscribed" ack of this room before the call.)
BroadcastToRoomStamped(room, p) ==
    enqueue([type |-> p[1], room |-> room, data |-> p[2], call |-> "BroadcastToRoom",
             after |-> {c \in Clients : room \in readPc[c].acked}])

\* The hub with connections whose read paths handle ping and subscribe
\* frames, a producer of room broadcasts, and write paths that drain.
ClientNext ==
    \/ \E c \in Clients : HubRegister(c)
    \/ \E c \in Clients : HubUnregister(c)
    \/ HubBroadcast
    \/ \E c \in Clients : ReadPumpStart(c)
    \/ \E c \in Clients : HandlePing(c)
    \/ \E c \in Clients, room \in RoomNames : HandleSubscribe(c, room)
    \/ \E c \in Clients : SendAck(c)
    \/ \E room \in RoomNames, p \in Payloads : BroadcastToRoomStamped(room, p)
    \/ \E c \in Clients : WritePumpRecv(c)

ClientSpec == Init /\ [][ClientNext]_vars

\* ReadPump counting a frame that failed to decode.
HandleMalformedCounted(c) ==
    /\ Running
    /\ readPc[c].at = "read"
    /\ metrics.TotalMessagesRecv < MaxRecv
    /\ metrics' = [metrics EXCEPT !.TotalMessagesRecv = @ + 1]
    /\ last' = "malformed"
    /\ UNCHANGED <<nHandled, clients, rooms, clientRooms, send, sendClosed, Broadcast,
                   ctxDone, hubPc, blockedOn, nRegisters, nUnregisterHits,
                   registerWait, nIssued, caps, snapshots, readPc, broadcastWait,
                   reading, writePc, wire>>

\* ReadPump reads a frame that json.Unmarshal rejects: the error is logged
\* and `continue` takes the loop back to ReadMessage, past handleMessage and
\* past the counter.
HandleMalformed(c) ==
    /\ Running
    /\ readPc[c].at = "read"
    /\ last' = "malformed"
    /\ UNCHANGED <<nHandled, clients, rooms, clientRooms, send, sendClosed, Broadcast, metrics,
                   ctxDone, hubPc, blockedOn, nRegisters, nUnregisterHits,
                   registerWait, nIssued, caps, snapshots, readPc, broadcastWait,
                   reading, writePc, wire>>

\* The hub with connections whose read paths get ping, subscribe and
\* malformed frames, and write paths that drain; no broadcasts are issued.
FrameNext ==
    \/ \E c \in Clients : HubRegister(c)
    \/ \E c \in Clients : ReadPumpStart(c)
    \/ \E c \in Clients : HandlePing(c)
    \/ \E c \in Clients, room \in RoomNames : HandleSubscribe(c, room)
    \/ \E c \in Clients : SendAck(c)
    \/ \E c \in Clients : HandleMalformed(c)
    \/ \E c \in Clients : WritePumpRecv(c)

FrameSpec == Init /\ [][FrameNext]_vars

\* ReadPump reads a frame that decodes, and handleMessage returns without a
\* send (type "message" or an unknown type: it only logs); the counter is
\* next.
HandleFrame(c) ==
    /\ Running
    /\ readPc[c].at = "read"
    /\ nHandled < MaxHandled
    /\ nHandled' = nHandled + 1
    /\ readPc' = [readPc EXCEPT ![c].at = "count"]
    /\ last' = "frame"
    /\ UNCHANGED <<clients, rooms, clientRooms, send, sendClosed, Broadcast, metrics,
                   ctxDone, hubPc, blockedOn, nRegisters, nUnregisterHits,
                   registerWait, nIssued, caps, snapshots, broadcastWait,
                   reading, writePc, wire>>

\* `c.hub.metrics.TotalMessagesRecv++` holds no lock and is not atomic: the
\* goroutine first reads the counter,
CountLoad(c) ==
    /\ Running
    /\ readPc[c].at = "count"
    /\ readPc' = [readPc EXCEPT ![c].at = "store",
                                ![c].loaded = metrics.TotalMessagesRecv]
    /\ last' = "countLoad"
    /\ UNCHANGED <<clients, rooms, clientRooms, send, sendClosed, Broadcast, metrics,
                   ctxDone, hubPc, blockedOn, nRegisters, nUnregisterHits,
                   registerWait, nIssued, caps, snapshots, broadcastWait,
                   reading, writePc, wire, nHandled>>

\* then writes back the value it read plus one, and ReadPump goes on to the
\* next ReadMessage.
CountStore(c) ==
    /\ Running
    /\ readPc[c].at = "store"
    /\ metrics' = [metrics EXCEPT !.TotalMessagesRecv = readPc[c].loaded + 1]
    /\ readPc' = [readPc EXCEPT ![c].at = "read", ![c].loaded = 0]
    /\ last' = "countStore"
    /\ UNCHANGED <<clients, rooms, clientRooms, send, sendClosed, Broadcast,
                   ctxDone, hubPc, blockedOn, nRegisters, nUnregisterHits,
                   registerWait, nIssued, caps, snapshots, broadcastWait,
                   reading, writePc, wire, nHandled>>

\* The hub with connections whose read paths handle frames and count them.
CountNext ==
    \/ \E c \in Clients : HubRegister(c)
    \/ \E c \in Clients : ReadPumpStart(c)
    \/ \E c \in Clients : HandleFrame(c)
    \/ \E c \in Clients : CountLoad(c)
    \/ \E c \in Clients : CountStore(c)

CountSpec == Init /\ [][CountNext]_vars

\* ------------------------------------------------- the end of a read path
\* conn.ReadMessage returns an error (transport error or closure): ReadPump
\* breaks out of its loop and its deferred function reaches
\* `c.hub.Unregister <- c`, an unbuffered send.
ReadPumpExit(c) ==
    /\ Running
    /\ readPc[c].at = "read"
    /\ readPc' = [readPc EXCEPT ![c].at = "unregister"]
    /\ last' = "readPumpExit"
    /\ UNCHANGED <<nHandled, writePc, wire, clients, rooms, clientRooms, send, sendClosed, Broadcast, metrics,
                   ctxDone, hubPc, blockedOn, nRegisters, nUnregisterHits,
                   registerWait, nIssued, caps, snapshots, broadcastWait, reading>>

\* case client := <-h.Unregister of Hub.Run meeting the send of c's deferred
\* function: unregisterClient runs and the sender goes on.
HubUnregisterFromReadPump(c) ==
    /\ hubPc = "select"
    /\ readPc[c].at = "unregister"
    /\ unregisterClient(c)
    /\ readPc' = [readPc EXCEPT ![c].at = "close"]
    /\ last' = IF c \notin clients THEN "unregisterNoop"
                ELSE IF clientRooms[c] # {} THEN "unregisterRooms"
                ELSE "unregister"
    /\ UNCHANGED <<nHandled, writePc, wire, send, Broadcast, ctxDone, blockedOn, nRegisters,
                   registerWait, nIssued, caps, snapshots, broadcastWait, reading>>

\* The deferred function goes on with c.conn.Close() and ReadPump returns.
ReadPumpClose(c) ==
    /\ Running
    /\ readPc[c].at = "close"
    /\ readPc' = [readPc EXCEPT ![c].at = "closed"]
    /\ last' = "readPumpClose"
    /\ UNCHANGED <<nHandled, writePc, wire, clients, rooms, clientRooms, send, sendClosed, Broadcast, metrics,
                   ctxDone, hubPc, blockedOn, nRegisters, nUnregisterHits,
                   registerWait, nIssued, caps, snapshots, broadcastWait, reading>>

\* The hub with connections whose read paths start and end, broadcasts to
\* all, and the cancellation of the hub's context.
ReadPumpNext ==
    \/ HubShutdown
    \/ \E c \in Clients : HubRegister(c)
    \/ HubBroadcast
    \/ \E p \in Payloads : BroadcastToAll(p)
    \/ \E c \in Clients : ReadPumpStart(c)
    \/ \E c \in Clients : ReadPumpExit(c)
    \/ \E c \in Clients : HubUnregisterFromReadPump(c)
    \/ \E c \in Clients : ReadPumpClose(c)
    \/ \E c \in Clients : WritePumpRecv(c)
    \/ Cancel

\* Hub.Run takes a select case that stays ready, and a goroutine that can
\* run does run.
ReadPumpSpec ==
    /\ Init /\ [][ReadPumpNext]_vars
    /\ WF_vars(HubShutdown) /\ WF_vars(HubBroadcast)
    /\ \A c \in Clients : WF_vars(HubUnregisterFromReadPump(c))
    /\ \A c \in Clients : WF_vars(ReadPumpClose(c))

\* ------------------------------------------------- callers of the broadcasts
\* The Messages that BroadcastToRoom and BroadcastToAll build.
BroadcastCalls ==
    {[type |-> p[1], room |-> room, data |-> p[2], call |-> "BroadcastToRoom"] :
        room \in RoomNames, p \in Payloads}
    \cup {[type |-> p[1], room |-> "", data |-> p[2], call |-> "BroadcastToAll"] :
             p \in Payloads}

\* A caller enters BroadcastToRoom or BroadcastToAll, builds the Message and
\* reaches `h.Broadcast <- message`.
BroadcastCall(m) ==
    /\ Running
    /\ nIssued < MaxIssued
    /\ m \notin broadcastWait
    /\ broadcastWait' = broadcastWait \cup {m}
    /\ nIssued' = nIssued + 1
    /\ last' = "broadcastCall"
    /\ UNCHANGED <<nHandled, writePc, wire, clients, rooms, clientRooms, send, sendClosed, Broadcast, metrics,
                   ctxDone, hubPc, blockedOn, nRegisters, nUnregisterHits,
                   registerWait, caps, snapshots, readPc, reading>>

\* The send completes once Hub.Broadcast has a free slot, and the call
\* returns.
BroadcastReturn(m) ==
    /\ Running
    /\ m \in broadcastWait
    /\ Len(Broadcast) < caps.bcast
    /\ Broadcast' = Append(Broadcast, m)
    /\ broadcastWait' = broadcastWait \ {m}
    /\ last' = "enqueue"
    /\ UNCHANGED <<nHandled, writePc, wire, clients, rooms, clientRooms, send, sendClosed, metrics,
                   ctxDone, hubPc, blockedOn, nRegisters, nUnregisterHits,
                   registerWait, nIssued, caps, snapshots, readPc, reading>>

\* The hub with connections, callers of the two broadcasts, draining write
\* paths and the cancellation of the hub's context.
BroadcastCallNext ==
    \/ HubShutdown
    \/ \E c \in Clients : HubRegister(c)
    \/ HubBroadcast
    \/ \E m \in BroadcastCalls : BroadcastCall(m)
    \/ \E m \in BroadcastCalls : BroadcastReturn(m)
    \/ \E c \in Clients : WritePumpRecv(c)
    \/ Cancel

\* Hub.Run takes a select case that stays ready, and a caller whose send can
\* complete does complete it.
BroadcastCallSpec ==
    /\ Init /\ [][BroadcastCallNext]_vars
    /\ WF_vars(HubShutdown) /\ WF_vars(HubBroadcast)
    /\ \A m \in BroadcastCalls : WF_vars(BroadcastReturn(m))

\* ------------------------------------------ readers of the membership cache
\* A caller of Client.IsInRoom or Client.GetRooms has taken c.mu.RLock and
\* is reading Client.rooms.
ClientRLock(c) ==
    /\ Running
    /\ c \notin reading
    /\ reading' = reading \cup {c}
    /\ last' = "cacheRLock"
    /\ UNCHANGED <<nHandled, writePc, wire, clients, rooms, clientRooms, send, sendClosed, Broadcast, metrics,
                   ctxDone, hubPc, blockedOn, nRegisters, nUnregisterHits,
                   registerWait, nIssued, caps, snapshots, readPc, broadcastWait>>

\* The read is done: the deferred c.mu.RUnlock runs and the call returns.
ClientRUnlock(c) ==
    /\ Running
    /\ c \in reading
    /\ reading' = reading \ {c}
    /\ last' = "cacheRUnlock"
    /\ UNCHANGED <<nHandled, writePc, wire, clients, rooms, clientRooms, send, sendClosed, Broadcast, metrics,
                   ctxDone, hubPc, blockedOn, nRegisters, nUnregisterHits,
                   registerWait, nIssued, caps, snapshots, readPc, broadcastWait>>

\* The hub with connections that come and go, join and leave rooms, and
\* callers of IsInRoom and GetRooms.  JoinRoom, removeFromRoom and
\* unregisterClient take Hub.mu and never Client.mu, so a reader holding
\* Client.mu does not make them wait.
CacheNext ==
    \/ \E c \in Clients : HubRegister(c)
    \/ \E c \in Clients : HubUnregister(c)
    \/ \E room \in RoomNames, c \in Clients : JoinRoom(room, c)
    \/ \E room \in RoomNames, c \in Clients : LeaveRoom(room, c)
    \/ \E c \in Clients : ClientRLock(c)
    \/ \E c \in Clients : ClientRUnlock(c)

CacheSpec == Init /\ [][CacheNext]_vars

\* ------------------------------------------------- the life of a connection
\* serveWs: NewClient, the Register send that Hub.Run receives, then
\* `go client.WritePump()` and `go client.ReadPump()`.  A client object goes
\* through serveWs once.
ServeWs(c) ==
    /\ hubPc = "select"
    /\ readPc[c].at = "idle" /\ writePc[c].at = "idle"
    /\ c \notin clients /\ ~sendClosed[c]
    /\ registerClient(c)
    /\ nRegisters' = nRegisters + 1
    /\ readPc' = [readPc EXCEPT ![c].at = "read"]
    /\ writePc' = [writePc EXCEPT ![c].at = "run"]
    /\ last' = "register"
    /\ UNCHANGED <<nHandled, rooms, clientRooms, send, sendClosed, Broadcast, ctxDone, hubPc,
                   blockedOn, nUnregisterHits, registerWait, nIssued, caps,
                   snapshots, broadcastWait, reading, wire>>

\* The frame WritePump writes when it finds Client.send closed.
CloseFrame == << << <<"close", "">> >> >>

\* WritePump at its select: `case message, ok := <-c.send` with ok true.
WritePumpRecvFirst(c) ==
    /\ Running
    /\ writePc[c].at = "run"
    /\ send[c] # << >>
    /\ send' = [send EXCEPT ![c] = Tail(@)]
    /\ writePc' = [writePc EXCEPT ![c] = WriteAt("write", <<Head(send[c])>>, "")]
    /\ last' = "writeRecv"
    /\ UNCHANGED <<nHandled, clients, rooms, clientRooms, sendClosed, Broadcast, metrics,
                   ctxDone, hubPc, blockedOn, nRegisters, nUnregisterHits,
                   registerWait, nIssued, caps, snapshots, readPc, broadcastWait,
                   reading, wire>>

\* WritePumpFlush writing only the message it received first and leaving
\* the queued ones unwritten.
WritePumpFlushFirstOnly(c) ==
    /\ Running
    /\ writePc[c].at = "write"
    /\ wire' = [wire EXCEPT ![c] = Append(@, writePc[c].cur)]
    /\ send' = [send EXCEPT ![c] = << >>]
    /\ writePc' = [writePc EXCEPT ![c] = WriteAt("run", << >>, "")]
    /\ last' = "writeFlush"
    /\ UNCHANGED <<nHandled, clients, rooms, clientRooms, sendClosed, Broadcast, metrics,
                   ctxDone, hubPc, blockedOn, nRegisters, nUnregisterHits,
                   registerWait, nIssued, caps, snapshots, readPc, broadcastWait,
                   reading>>

\* NextWriter succeeded: w.Write(message), then `n := len(c.send)` and n
\* more receives, each written after a newline, then w.Close() succeeds: one
\* frame with the message and everything queued at that moment.
WritePumpFlush(c) ==
    /\ Running
    /\ writePc[c].at = "write"
    /\ wire' = [wire EXCEPT ![c] = Append(@, writePc[c].cur \o send[c])]
    /\ send' = [send EXCEPT ![c] = << >>]
    /\ writePc' = [writePc EXCEPT ![c] = WriteAt("run", << >>, "")]
    /\ last' = "writeFlush"
    /\ UNCHANGED <<nHandled, clients, rooms, clientRooms, sendClosed, Broadcast, metrics,
                   ctxDone, hubPc, blockedOn, nRegisters, nUnregisterHits,
                   registerWait, nIssued, caps, snapshots, readPc, broadcastWait,
                   reading>>

\* A transport write fails: the keepalive WriteMessage of the ticker case
\* (at the select), NextWriter (the received message is lost), or w.Close
\* (the queued messages were taken off the buffer too).  WritePump returns
\* and its deferred function closes the transport.
WritePumpWriteError(c) ==
    /\ Running
    /\ writePc[c].at \in {"run", "write"}
    /\ \E drained \in BOOLEAN :
          send' = IF drained /\ writePc[c].at = "write"
                  THEN [send EXCEPT ![c] = << >>] ELSE send
    /\ writePc' = [writePc EXCEPT ![c] = WriteAt("closed", << >>, "writeError")]
    /\ last' = "writeError"
    /\ UNCHANGED <<nHandled, clients, rooms, clientRooms, sendClosed, Broadcast, metrics,
                   ctxDone, hubPc, blockedOn, nRegisters, nUnregisterHits,
                   registerWait, nIssued, caps, snapshots, readPc, broadcastWait,
                   reading, wire>>

\* WritePump that goes back to its select after the close frame instead of
\* returning.
WritePumpClosedRecvStays(c) ==
    /\ Running
    /\ writePc[c].at = "run"
    /\ send[c] = << >> /\ sendClosed[c]
    /\ \A i \in 1 .. Len(wire[c]) : wire[c][i] # CloseFrame
    /\ wire' = [wire EXCEPT ![c] = Append(@, CloseFrame)]
    /\ last' = "writeClose"
    /\ UNCHANGED <<nHandled, clients, rooms, clientRooms, send, sendClosed, Broadcast, metrics,
                   ctxDone, hubPc, blockedOn, nRegisters, nUnregisterHits,
                   registerWait, nIssued, caps, snapshots, readPc, broadcastWait,
                   reading, writePc>>

\* WritePump at its select: `case message, ok := <-c.send` with ok false,
\* which a closed channel gives once it is empty: the close frame is
\* written, WritePump returns and its deferred function closes the transport.
WritePumpClosedRecv(c) ==
    /\ Running
    /\ writePc[c].at = "run"
    /\ send[c] = << >> /\ sendClosed[c]
    /\ wire' = [wire EXCEPT ![c] = Append(@, CloseFrame)]
    /\ writePc' = [writePc EXCEPT ![c] = WriteAt("closed", << >>, "sendClosed")]
    /\ last' = "writeClose"
    /\ UNCHANGED <<nHandled, clients, rooms, clientRooms, send, sendClosed, Broadcast, metrics,
                   ctxDone, hubPc, blockedOn, nRegisters, nUnregisterHits,
                   registerWait, nIssued, caps, snapshots, readPc, broadcastWait,
                   reading>>

\* ReadMessage fails because WritePump's deferred function has closed the
\* transport.
ReadPumpExitOnClosedConn(c) == writePc[c].at = "closed" /\ ReadPumpExit(c)

\* The hub with connections that serveWs brings in, their read and write
\* paths with transport errors, broadcasts to all, Unregister events from
\* other senders, and the cancellation of the hub's context.
ConnNext ==
    \/ HubShutdown
    \/ \E c \in Clients : ServeWs(c)
    \/ \E c \in Clients : HubUnregister(c)
    \/ \E c \in Clients : HubUnregisterFromReadPump(c)
    \/ HubBroadcast
    \/ \E p \in Payloads : BroadcastToAll(p)
    \/ \E c \in Clients : ReadPumpExit(c)
    \/ \E c \in Clients : ReadPumpClose(c)
    \/ \E c \in Clients : WritePumpRecvFirst(c)
    \/ \E c \in Clients : WritePumpFlush(c)
    \/ \E c \in Clients : WritePumpWriteError(c)
    \/ \E c \in Clients : WritePumpClosedRecv(c)
    \/ Cancel

\* Hub.Run takes a select case that stays ready, a goroutine that can run
\* does run, and a read on a closed transport fails.
ConnSpec ==
    /\ Init /\ [][ConnNext]_vars
    /\ WF_vars(HubShutdown) /\ WF_vars(HubBroadcast)
    /\ \A c \in Clients :
          /\ WF_vars(HubUnregisterFromReadPump(c))
          /\ WF_vars(ReadPumpClose(c))
          /\ WF_vars(ReadPumpExitOnClosedConn(c))
          /\ WF_vars(WritePumpRecvFirst(c))
          /\ WF_vars(WritePumpFlush(c))
          /\ WF_vars(WritePumpClosedRecv(c))

\* ------------------------------------------------------- metrics snapshots
\* GetMetrics returning the live RoomCounts map in the copy of the struct
\* (the holder's RoomCounts is then the hub's own map).
GetMetricsSharedMap ==
    [ref |-> "live",
     TotalConnections |-> metrics.TotalConnections,
     ActiveConnections |-> metrics.ActiveConnections,
     TotalMessagesSent |-> metrics.TotalMessagesSent,
     TotalMessagesRecv |-> metrics.TotalMessagesRecv,
     RoomCounts |-> << >>]

\* Hub.GetMetrics: a new HubMetrics with the counters copied by value and a
\* new map filled from the live RoomCounts.  It takes metrics.mu only.
GetMetrics ==
    [ref |-> "copy",
     TotalConnections |-> metrics.TotalConnections,
     ActiveConnections |-> metrics.ActiveConnections,
     TotalMessagesSent |-> metrics.TotalMessagesSent,
     TotalMessagesRecv |-> metrics.TotalMessagesRecv,
     RoomCounts |-> metrics.RoomCounts]

\* The map a holder reaches through the RoomCounts field of its snapshot.
SnapshotRoomCounts(i) ==
    IF snapshots[i].ref = "live" THEN metrics.RoomCounts ELSE snapshots[i].RoomCounts

\* What holder i reads from its snapshot.
SnapshotView(i) ==
    [TotalConnections |-> snapshots[i].TotalConnections,
     ActiveConnections |-> snapshots[i].ActiveConnections,
     TotalMessagesSent |-> snapshots[i].TotalMessagesSent,
     TotalMessagesRecv |-> snapshots[i].TotalMessagesRecv,
     RoomCounts |-> SnapshotRoomCounts(i)]

\* A caller (the /metrics handler, logMetrics) calls GetMetrics and keeps
\* the result.  Nothing makes it wait for Hub.mu.
TakeSnapshot(i) ==
    /\ Running
    /\ snapshots' = [snapshots EXCEPT ![i] = GetMetrics]
    /\ last' = "snapshot"
    /\ UNCHANGED <<nHandled, writePc, wire, clients, rooms, clientRooms, send, sendClosed, Broadcast, metrics,
                   ctxDone, hubPc, blockedOn, nRegisters, nUnregisterHits,
                   registerWait, nIssued, caps, readPc, broadcastWait, reading>>

\* The holder writes an entry of the map its snapshot points to:
\* `m.RoomCounts[room] = WrittenCount`.
WriteSnapshotRoom(i, room) ==
    /\ Running
    /\ snapshots[i] # NoSnapshot
    /\ CountOf(SnapshotRoomCounts(i), room) # WrittenCount
    /\ IF snapshots[i].ref = "live"
       THEN /\ metrics' = [metrics EXCEPT !.RoomCounts = MapPut(@, room, WrittenCount)]
            /\ UNCHANGED snapshots
       ELSE /\ snapshots' = [snapshots EXCEPT ![i].RoomCounts =
                                 MapPut(@, room, WrittenCount)]
            /\ UNCHANGED metrics
    /\ last' = "snapshotWrite"
    /\ UNCHANGED <<nHandled, writePc, wire, clients, rooms, clientRooms, send, sendClosed, Broadcast,
                   ctxDone, hubPc, blockedOn, nRegisters, nUnregisterHits,
                   registerWait, nIssued, caps, readPc, broadcastWait, reading>>

\* The holder writes a counter of its snapshot: `m.ActiveConnections = WrittenCount`.
WriteSnapshotCounter(i) ==
    /\ Running
    /\ snapshots[i] # NoSnapshot
    /\ snapshots[i].ActiveConnections # WrittenCount
    /\ snapshots' = [snapshots EXCEPT ![i].ActiveConnections = WrittenCount]
    /\ last' = "snapshotWrite"
    /\ UNCHANGED <<nHandled, writePc, wire, clients, rooms, clientRooms, send, sendClosed, Broadcast, metrics,
                   ctxDone, hubPc, blockedOn, nRegisters, nUnregisterHits,
                   registerWait, nIssued, caps, readPc, broadcastWait, reading>>

\* Hub.registerClient up to and including `h.metrics.ActiveConnections++`,
\* with the producer's send on Hub.Register; Hub.mu stays held.
HubRegisterBegin(c) ==
    /\ hubPc = "select"
    /\ nRegisters < MaxRegisters
    /\ clients' = clients \cup {c}
    /\ metrics' = [metrics EXCEPT !.ActiveConnections = @ + 1]
    /\ hubPc' = "registering"
    /\ last' = "registerBegin"
    /\ UNCHANGED <<nHandled, writePc, wire, rooms, clientRooms, send, sendClosed, Broadcast, ctxDone,
                   blockedOn, nRegisters, nUnregisterHits,
                   registerWait, nIssued, caps, snapshots, readPc, broadcastWait,
                   reading>>

\* The rest of Hub.registerClient: `h.metrics.TotalConnections++` and the
\* unlock.
HubRegisterEnd ==
    /\ hubPc = "registering"
    /\ metrics' = [metrics EXCEPT !.TotalConnections = @ + 1]
    /\ hubPc' = "select"
    /\ nRegisters' = nRegisters + 1
    /\ last' = "register"
    /\ UNCHANGED <<nHandled, writePc, wire, clients, rooms, clientRooms, send, sendClosed, Broadcast, ctxDone,
                   blockedOn, nUnregisterHits,
                   registerWait, nIssued, caps, snapshots, readPc, broadcastWait,
                   reading>>

\* The hub, statement by statement inside registerClient, with connections
\* that join rooms and callers that take, keep and write metrics snapshots.
SnapshotNext ==
    \/ \E c \in Clients : HubRegisterBegin(c)
    \/ HubRegisterEnd
    \/ \E room \in RoomNames, c \in Clients : JoinRoom(room, c)
    \/ \E i \in Holders : TakeSnapshot(i)
    \/ \E i \in Holders, room \in RoomNames : WriteSnapshotRoom(i, room)
    \/ \E i \in Holders : WriteSnapshotCounter(i)

SnapshotSpec == Init /\ [][SnapshotNext]_vars

\* ------------------------------------------------------------------ claims
\* The members of room R in the room index (none when R has no entry).
Members(R) == IF R \in DOMAIN rooms THEN rooms[R] ELSE {}
HasSpace(c) == ~sendClosed[c] /\ Len(send[c]) < caps.send
IsFull(c) == ~sendClosed[c] /\ Len(send[c]) = caps.send
\* This step is Hub.Run processing the message at the head of Hub.Broadcast.
BroadcastStep == hubPc = "select" /\ Broadcast # << >> /\ last' = "broadcast"
Delivered(c, m) == send'[c] = Append(send[c], Marshal(m))
\* The value a receiver decodes for `key` from an encoded message: the one
\* of the key's pair, or the zero value when the pair is absent.
Field(bytes, key) ==
    IF \E i \in 1 .. Len(bytes) : bytes[i][1] = key
    THEN bytes[CHOOSE i \in 1 .. Len(bytes) : bytes[i][1] = key][2]
    ELSE ""

\* C1: while the control loop processes one broadcast whose targets are all
\* open, if some target's outbound buffer is full, every other target of that
\* broadcast that has free space gets the message appended to its buffer.
C1_FullTargetDoesNotStopFanOut ==
    [][BroadcastStep =>
         LET m == Head(Broadcast)
             T == targetClients(m)
         IN ((\A x \in T : ~sendClosed[x]) /\ (\E f \in T : IsFull(f)))
            => \A t \in T : HasSpace(t) => Delivered(t, m)]_vars

\* C2: a registered connection whose outbound buffer was full when a broadcast
\* targeted it is eventually removed from the registry and from its rooms, and
\* its outbound buffer is closed.
C2_FullTargetIsEvicted ==
    \A c \in Clients :
        (hubPc = "blocked" /\ blockedOn = c /\ c \in clients)
        ~> (/\ c \notin clients
            /\ sendClosed[c]
            /\ \A R \in DOMAIN rooms : c \notin rooms[R])

\* C3: once the cancellation signal is raised, the control loop eventually
\* runs shutdown and returns (unless the process has crashed).
C3_CancelLeadsToShutdown ==
    ctxDone ~> (hubPc \in {"done", "panic"})

\* C4: when the control loop processes BroadcastToRoom(R, ...) and every
\* target has room in its buffer, the message is appended to the buffer of
\* every member of R and to the buffer of no connection that is not a member
\* of R, for every room name R, the empty name included.
C4_RoomBroadcastReachesMembersOnly ==
    [][BroadcastStep =>
         LET m == Head(Broadcast)
         IN (m.call = "BroadcastToRoom" /\ \A x \in targetClients(m) : HasSpace(x))
            => \A c \in Clients :
                  IF c \in Members(m.room) THEN Delivered(c, m)
                  ELSE send'[c] = send[c]]_vars

\* C5: one BroadcastToRoom(R, type, data) appends to the buffer of a
\* registered member A of R that has room for it exactly one message, which
\* carries that type, the room R and that data; and it appends nothing to a
\* connection that has left R (is not a member of R).
C5_MemberGetsExactlyOneMessage ==
    [][BroadcastStep =>
         LET m == Head(Broadcast)
         IN (m.call = "BroadcastToRoom" /\ \A x \in Clients : ~sendClosed[x])
            => \A A \in clients :
                  /\ (A \in Members(m.room) /\ HasSpace(A))
                        => /\ Len(send'[A]) = Len(send[A]) + 1
                           /\ SubSeq(send'[A], 1, Len(send[A])) = send[A]
                           /\ LET b == send'[A][Len(send'[A])]
                              IN /\ Field(b, "type") = m.type
                                 /\ Field(b, "room") = m.room
                                 /\ Field(b, "data") = m.data
                  /\ A \notin Members(m.room) => send'[A] = send[A]]_vars

\* C6: when the control loop processes BroadcastToAll, the message is
\* appended exactly once to the buffer of every connection registered at
\* that moment that has buffer space, and to no connection that is not
\* registered at that moment.
C6_BroadcastToAllReachesRegistry ==
    [][BroadcastStep =>
         LET m == Head(Broadcast)
         IN (m.call = "BroadcastToAll" /\ \A x \in clients : ~sendClosed[x])
            => \A c \in Clients :
                  /\ (c \in clients /\ HasSpace(c)) => Delivered(c, m)
                  /\ c \notin clients => send'[c] = send[c]]_vars

\* C7: a BroadcastToRoom to a room that has no members changes no outbound
\* buffer, creates no room entry, unregisters no connection and leaves the
\* sent-message counter unchanged.
C7_EmptyRoomBroadcastDeliversNothing ==
    [][BroadcastStep =>
         LET m == Head(Broadcast)
         IN (m.call = "BroadcastToRoom" /\ Members(m.room) = {})
            => /\ UNCHANGED <<send, rooms, clients, sendClosed>>
               /\ metrics'.TotalMessagesSent = metrics.TotalMessagesSent
               /\ hubPc' = "select"]_vars

\* C8: processing Unregister for a connection that is not registered changes
\* nothing, and processing it for a registered connection leaves it not
\* registered: a second Unregister of the same connection is a no-op.
C8_UnregisterIdempotent ==
    [][\A c \in Clients :
         HubUnregister(c) =>
            /\ c \notin clients'
            /\ c \notin clients =>
                  UNCHANGED <<clients, rooms, clientRooms, send, sendClosed, metrics,
                              Broadcast, hubPc>>]_vars

\* C8's case: a connection was unregistered, and a further Unregister found
\* it not registered.
C8_Witness ==
    /\ last = "unregisterNoop"
    /\ nUnregisterHits > 0
    /\ \E c \in Clients : sendClosed[c] /\ c \notin clients

\* C9: while the hub runs, the active-connection count equals the number of
\* Register events processed minus the number of Unregister events that
\* found their connection registered, and it is never below zero.
C9_ActiveCountIsRegistersMinusHits ==
    Running =>
        /\ metrics.ActiveConnections = nRegisters - nUnregisterHits
        /\ metrics.ActiveConnections >= 0

\* C9's case: registers, an unregister that hit and one that did not.
C9_Witness ==
    /\ last = "unregisterNoop"
    /\ nRegisters >= 2
    /\ nUnregisterHits >= 1
    /\ metrics.ActiveConnections = 1

\* C10: whenever the control loop is between two events or has returned,
\* ActiveConnections equals the number of connections in the registry.
C10_ActiveCountIsRegistrySize ==
    hubPc \in {"select", "done"} =>
        metrics.ActiveConnections = Cardinality(clients)

\* Client.IsInRoom: the room is a key of Client.rooms.
IsInRoom(c, room) == room \in clientRooms[c]
\* Client.GetRooms: the keys of Client.rooms.
GetRooms(c) == { room \in RoomNames : room \in clientRooms[c] }
\* Hub.GetRoomCount: the size of the room's member set, 0 for an absent room.
GetRoomCount(room) == IF room \in DOMAIN rooms THEN Cardinality(rooms[room]) ELSE 0

\* C11: once JoinRoom(R, C) has returned, IsInRoom(C, R) is true, R is in
\* GetRooms(C) and C is in the room index entry of R; once LeaveRoom(R, C)
\* has returned, IsInRoom(C, R) is false, R is absent from GetRooms(C) and C
\* is not in the room index entry of R.
C11_JoinLeavePostconditions ==
    [][\A R \in RoomNames, C \in Clients :
         /\ JoinRoom(R, C) =>
               /\ IsInRoom(C, R)'
               /\ R \in GetRooms(C)'
               /\ C \in Members(R)'
         /\ LeaveRoom(R, C) =>
               /\ ~IsInRoom(C, R)'
               /\ R \notin GetRooms(C)'
               /\ C \notin Members(R)']_vars

\* C12: JoinRoom(R, C) when C is already a member of R is a no-op: it leaves
\* the room index, C's membership cache and the per-room occupancy count of
\* the metrics unchanged.
C12_JoinRoomIdempotent ==
    [][\A R \in RoomNames, C \in Clients :
         (C \in Members(R) /\ JoinRoom(R, C)) =>
            /\ rooms' = rooms
            /\ clientRooms'[C] = clientRooms[C]
            /\ metrics'.RoomCounts = metrics.RoomCounts]_vars

\* C13: LeaveRoom(R, C) when C is not a member of R (R absent, or R present
\* with other members only) leaves the room index, every membership cache
\* and the per-room occupancy counts unchanged.
C13_LeaveRoomIdempotent ==
    [][\A R \in RoomNames, C \in Clients :
         (C \notin Members(R) /\ LeaveRoom(R, C)) =>
            /\ rooms' = rooms
            /\ clientRooms' = clientRooms
            /\ metrics'.RoomCounts = metrics.RoomCounts]_vars

\* This step is a LeaveRoom call or the hub processing an Unregister event.
LeaveOrUnregisterStep ==
    last' \in {"leave", "leaveLast", "leaveNoop",
               "unregister", "unregisterRooms", "unregisterNoop"}

\* C14: every room name present in the room index has at least one member;
\* when the last member of a room leaves or is unregistered, the room entry
\* is removed, and GetRoomCount and the per-room counts of the metrics no
\* longer show that room.
C14_NoEmptyRoomEntry ==
    /\ [](\A R \in DOMAIN rooms : rooms[R] # {})
    /\ [][\A R \in RoomNames :
            (LeaveOrUnregisterStep /\ Members(R) # {} /\ Members(R)' = {}) =>
               /\ R \notin DOMAIN rooms'
               /\ GetRoomCount(R)' = 0
               /\ R \notin DOMAIN metrics'.RoomCounts]_vars

\* C14's case: the last member of a room has just left, or the only member
\* of a room was just unregistered, while another room is still occupied.
C14_Witness ==
    /\ last \in {"leaveLast", "unregisterRooms"}
    /\ \E R \in RoomNames : R \notin DOMAIN rooms /\ R \notin DOMAIN metrics.RoomCounts
    /\ \E R \in DOMAIN rooms : rooms[R] # {}

\* C15: between hub operations, a connection's membership cache and the room
\* index agree: for every connection C and room R, R is in C's membership
\* cache if and only if C is in the member set of R in the room index.
C15_CacheAgreesWithIndex ==
    LockFree =>
        \A C \in Clients, R \in RoomNames : IsInRoom(C, R) <=> C \in Members(R)

\* C16: after Unregister(C) is processed for a registered connection C, C is
\* a member of no room, its membership cache is empty, every room of which C
\* was the only member is gone from the room index, C is absent from the
\* registry, and C's outbound buffer is closed.
C16_UnregisterPostconditions ==
    [][\A C \in Clients :
         (C \in clients /\ HubUnregister(C)) =>
            /\ \A R \in RoomNames : C \notin Members(R)'
            /\ GetRooms(C)' = {}
            /\ \A R \in RoomNames : Members(R) = {C} => R \notin DOMAIN rooms'
            /\ C \notin clients'
            /\ sendClosed'[C]]_vars

\* C16's case: a registered connection that was in a room has just been
\* unregistered.
C16_Witness ==
    /\ last = "unregisterRooms"
    /\ Running
    /\ \E C \in Clients : C \notin clients /\ sendClosed[C] /\ GetRooms(C) = {}

\* C17: after shutdown has run, every connection that was registered has its
\* outbound buffer closed, the registry and the room index are empty, and the
\* active-connection count reported by the metrics is 0.
C17_ShutdownPostconditions ==
    [][(HubShutdown /\ hubPc' = "done") =>
          /\ \A c \in clients : sendClosed'[c]
          /\ clients' = {}
          /\ rooms' = << >>
          /\ metrics'.ActiveConnections = 0]_vars

\* C18: after shutdown has completed, a Register attempt never adds a
\* connection to the registry or changes a counter, and the caller making
\* the attempt is not left blocked forever.
C18_RegisterAfterShutdownReturns ==
    /\ [][(\E c \in Clients : RegisterSend(c)) => UNCHANGED <<clients, metrics>>]_vars
    /\ \A c \in Clients : (c \in registerWait) ~> (c \notin registerWait)

\* C19: broadcasts one producer issues to a room reach each member's
\* outbound buffer in the order of the calls: no buffer ever holds a later
\* broadcast to a room ahead of an earlier broadcast to the same room.
C19_RoomBroadcastsKeepIssueOrder ==
    \A c \in Clients :
        \A i, j \in 1 .. Len(send[c]) :
            (i < j /\ Field(send[c][i], "room") = Field(send[c][j], "room"))
               => Field(send[c][i], "data") < Field(send[c][j], "data")

\* C19's case: a buffer holds two broadcasts to the same room, while a third
\* one waits in Hub.Broadcast.
C19_Witness ==
    \E c \in Clients :
        /\ Len(send[c]) = 2
        /\ Field(send[c][1], "room") = Field(send[c][2], "room")
        /\ Broadcast # << >>

\* C20: control events are processed in the order one producer enqueued them,
\* across event kinds: when a producer's broadcast call has just returned and
\* the same producer then sends a Register or Unregister event, the control
\* loop does not process that event while the broadcast still waits in
\* Hub.Broadcast.  (Producers have no names here: the two consecutive steps
\* are the ones of one goroutine.)
C20_ControlEventsFifoAcrossKinds ==
    [][(last = "enqueue" /\ Broadcast # << >>) =>
          ~(\E c \in Clients : HubRegister(c) \/ HubUnregister(c))]_vars

\* This step is holder i calling GetMetrics or writing its own snapshot.
HolderStep(i) ==
    \/ TakeSnapshot(i)
    \/ WriteSnapshotCounter(i)
    \/ \E room \in RoomNames : WriteSnapshotRoom(i, room)

\* C21: a metrics snapshot is an independent copy: a holder writing its
\* snapshot (a counter or an entry of the per-room map) never changes the
\* hub's live metrics or another holder's snapshot, and no hub operation
\* changes what a holder reads from a snapshot it already has.
C21_SnapshotIsIndependent ==
    [][/\ \A i \in Holders :
            (snapshots[i] # NoSnapshot /\ ~HolderStep(i))
               => SnapshotView(i)' = SnapshotView(i)
       /\ last' = "snapshotWrite" => metrics' = metrics]_vars

\* C21's case: a holder has written both the map and a counter of its
\* snapshot, the other holder has a snapshot too, and the hub has since
\* changed a per-room count.
C21_Witness ==
    \E i, j \in Holders :
        /\ i # j
        /\ snapshots[i] # NoSnapshot /\ snapshots[j] # NoSnapshot
        /\ snapshots[i].ActiveConnections = WrittenCount
        /\ \E room \in DOMAIN snapshots[i].RoomCounts :
              snapshots[i].RoomCounts[room] = WrittenCount
        /\ snapshots[j].RoomCounts # metrics.RoomCounts
        /\ last = "join"

\* C22: between hub operations, the metrics hold a per-room count for
\* exactly the rooms present in the room index, each count equals the number
\* of members of the room (the value GetRoomCount returns), and no count is
\* zero or negative.
C22_RoomCountsMatchIndex ==
    LockFree =>
        /\ DOMAIN metrics.RoomCounts = DOMAIN rooms
        /\ \A R \in DOMAIN rooms :
              /\ metrics.RoomCounts[R] = GetRoomCount(R)
              /\ metrics.RoomCounts[R] > 0

\* This step is a direct send by the read path of c: the pong of a ping or
\* the ack of a subscribe.
DirectSend(c) == HandlePing(c) \/ SendAck(c)

\* C23: a direct send to a connection whose outbound buffer is full drops
\* that message without blocking the caller: the buffers are unchanged, the
\* connection stays registered and keeps its room memberships, no Unregister
\* is enqueued, and the read path is back at its read.
C23_DirectSendToFullBufferDrops ==
    [][\A c \in Clients :
         (IsFull(c) /\ DirectSend(c)) =>
            /\ send' = send
            /\ UNCHANGED <<clients, rooms, clientRooms, sendClosed>>
            /\ UNCHANGED <<hubPc, blockedOn>>
            /\ readPc'[c].at = "read"]_vars

\* C23's case: a registered connection in a room has just had a pong or an
\* ack dropped on its full buffer.
C23_Witness ==
    /\ last \in {"pongDropped", "ackDropped"}
    /\ \E c \in clients : IsFull(c) /\ clientRooms[c] # {} /\ readPc[c].at = "read"

\* The encoded message is a pong.
IsPong(bytes) == Field(bytes, "type") = "pong"

\* C24 as stated: for every ping that a connection's read path handles,
\* exactly one pong is appended to that connection's own outbound buffer and
\* none to any other connection's buffer.
C24_EveryPingGetsOnePong ==
    [][\A c \in Clients :
         HandlePing(c) =>
            /\ Len(send'[c]) = Len(send[c]) + 1
            /\ SubSeq(send'[c], 1, Len(send[c])) = send[c]
            /\ IsPong(send'[c][Len(send'[c])])
            /\ \A d \in Clients \ {c} : send'[d] = send[d]]_vars

\* C24 amended: for every ping that a connection's read path handles, exactly
\* one pong is appended to that connection's own outbound buffer when that
\* buffer is open and has free space, its buffer is left as it was when it is
\* full or closed, and in every case no other connection's buffer changes.
C24_PingGetsOnePongIfSpace ==
    [][\A c \in Clients :
         HandlePing(c) =>
            /\ HasSpace(c) =>
                  /\ Len(send'[c]) = Len(send[c]) + 1
                  /\ SubSeq(send'[c], 1, Len(send[c])) = send[c]
                  /\ IsPong(send'[c][Len(send'[c])])
            /\ ~HasSpace(c) => send'[c] = send[c]
            /\ \A d \in Clients \ {c} : send'[d] = send[d]]_vars

\* C24's case: a ping was just answered with a pong in the sender's buffer
\* while another registered connection has an open, empty buffer.
C24_Witness ==
    /\ last = "pong"
    /\ \E c, d \in clients :
          /\ c # d
          /\ send[c] # << >> /\ IsPong(send[c][Len(send[c])])
          /\ ~sendClosed[d] /\ send[d] = << >>

\* This step puts the "subscribed" ack of c's pending subscribe into c's
\* buffer.
AckEnqueued(c) == SendAck(c) /\ last' = "ack"

\* C25: on a subscribe with a room the join happens before the ack: when the
\* ack is put into the connection's buffer the connection is a member of the
\* room, and the ack goes to no other buffer; and every BroadcastToRoom for
\* that room issued after the ack was enqueued is appended to the buffer of
\* that connection when the control loop processes it, provided the
\* connection is still a member and its buffer has free space.
C25_AckedSubscriberGetsLaterBroadcasts ==
    [][/\ \A c \in Clients :
            AckEnqueued(c) =>
               /\ c \in Members(readPc[c].room)
               /\ IsInRoom(c, readPc[c].room)
               /\ \A d \in Clients \ {c} : send'[d] = send[d]
       /\ BroadcastStep =>
            LET m == Head(Broadcast)
            IN \A c \in m.after :
                  (c \in Members(m.room) /\ c \in targetClients(m) /\ HasSpace(c))
                     => Delivered(c, m)]_vars

\* C26: whenever a connection's read path terminates, the Unregister of its
\* deferred function reaches the hub, after which the connection is not in
\* the registry, and the read unit finishes and closes the transport, in
\* every state of the hub (unless the process has crashed).
C26_ReadPumpExitCleansUp ==
    /\ [][\A c \in Clients : HubUnregisterFromReadPump(c) => c \notin clients']_vars
    /\ \A c \in Clients :
          (readPc[c].at = "unregister") ~> (readPc[c].at = "closed" \/ hubPc = "panic")

\* C27: a call of BroadcastToRoom or BroadcastToAll returns to its caller
\* without waiting for the control loop, whatever the number of broadcasts
\* still pending and whether or not the control loop is still running
\* (unless the process has crashed).
C27_BroadcastCallReturns ==
    \A m \in BroadcastCalls :
        (m \in broadcastWait) ~> (m \notin broadcastWait \/ hubPc = "panic")

\* This step is taken by the goroutine of Hub.Run: one of its select cases.
ControlLoopStep ==
    \/ HubShutdown
    \/ \E c \in Clients : HubRegister(c)
    \/ \E c \in Clients : HubUnregister(c)
    \/ HubBroadcast
    \/ HubTick

\* C28: every write to the registry, the room index and the metrics counters
\* is performed by the hub's control loop: a step that changes one of them is
\* a step of Hub.Run, never one of a connection's read or write unit or of an
\* external caller.
C28_OnlyControlLoopWritesHubState ==
    [][(clients' # clients \/ rooms' # rooms \/ metrics' # metrics)
          => ControlLoopStep]_vars

\* C29: a metrics snapshot taken concurrently with hub activity is never
\* torn: it is taken between two complete hub operations, never in the
\* middle of one, so that in every snapshot as GetMetrics returns it
\* ActiveConnections is at most TotalConnections.
C29_SnapshotNeverTorn ==
    [][\A i \in Holders :
         TakeSnapshot(i) =>
            /\ hubPc = "select"
            /\ snapshots'[i].ActiveConnections <= snapshots'[i].TotalConnections]_vars

\* C30: no interleaving has a connection's membership cache written (by
\* JoinRoom, LeaveRoom or Unregister) while a caller of IsInRoom or GetRooms
\* is reading it under the connection's lock.
C30_CacheNotWrittenWhileRead ==
    [][\A c \in Clients :
         clientRooms'[c] # clientRooms[c] => c \notin reading]_vars

\* C31: after the hub closes a connection's outbound buffer, that
\* connection's write path eventually terminates with the transport closed
\* (unless the process has crashed); the write path terminates on a
\* transport write error; and whenever it terminates, the buffer was closed
\* or a transport write failed.
C31_WritePathTerminates ==
    /\ \A c \in Clients :
          (sendClosed[c] /\ writePc[c].at # "idle")
             ~> (writePc[c].at = "closed" \/ hubPc = "panic")
    /\ [][\A c \in Clients :
            /\ WritePumpWriteError(c) => writePc'[c].at = "closed"
            /\ (writePc[c].at # "closed" /\ writePc'[c].at = "closed")
                  => \/ sendClosed[c] /\ writePc'[c].why = "sendClosed"
                     \/ WritePumpWriteError(c)]_vars

\* C31's case: a write path has terminated because its buffer was closed,
\* after it had written a message, and another one after a write error.
C31_Witness ==
    \E c, d \in Clients :
        /\ writePc[c].at = "closed" /\ writePc[c].why = "sendClosed"
        /\ Len(wire[c]) > 1
        /\ writePc[d].at = "closed" /\ writePc[d].why = "writeError"

\* C32: a transport error on one connection (a read failure, or a write
\* failure that ended its write path) eventually leads to that connection
\* being out of the registry and of every room with its buffer closed, with
\* the hub's control loop not stopped by it: the loop is at its select or
\* has returned after a cancellation (unless the process has crashed).
C32_TransportErrorLeadsToUnregister ==
    \A c \in Clients :
        (readPc[c].at = "unregister" \/ writePc[c].why = "writeError")
           ~> \/ /\ c \notin clients
                 /\ \A R \in DOMAIN rooms : c \notin rooms[R]
                 /\ sendClosed[c]
                 /\ hubPc = "select" \/ (hubPc = "done" /\ ctxDone)
              \/ hubPc = "panic"

\* The messages a receiver reads from the frames, in order: each data frame
\* split at its newlines; the close frame carries none.
RECURSIVE MessagesOf(_)
MessagesOf(frames) ==
    IF frames = << >> THEN << >>
    ELSE IF Head(frames) = CloseFrame THEN MessagesOf(Tail(frames))
    ELSE Head(frames) \o MessagesOf(Tail(frames))

\* What was pushed to c's buffer so far, in push order, as seen from the
\* transport: the messages written, the one in the writer's hand, and the
\* ones still queued.
Stream(c) == MessagesOf(wire[c]) \o writePc[c].cur \o send[c]

IsPrefix(s, t) == Len(s) <= Len(t) /\ SubSeq(t, 1, Len(s)) = s

C34_MalformedFrameHasNoEffect ==
    [][\A c \in Clients :
         HandleMalformed(c) =>
            /\ UNCHANGED <<rooms, clientRooms>>
            /\ UNCHANGED <<send, sendClosed, Broadcast>>
            /\ metrics' = metrics
            /\ UNCHANGED <<clients, hubPc, blockedOn>>
            /\ readPc'[c].at = "read"]_vars

\* C34's case: a malformed frame was just discarded on a registered
\* connection that is in a room, after a frame that was counted.
C34_Witness ==
    /\ last = "malformed"
    /\ metrics.TotalMessagesRecv > 0
    /\ \E c \in clients : clientRooms[c] # {} /\ readPc[c].at = "read"

\* C35: processing Unregister(C) leaves unchanged every other connection's
\* registration, room memberships (in the index and in its own cache) and
\* outbound buffer, the total-connections counter and the sent and received
\* message counters; the only rooms that leave the index are those of which
\* C was the sole member.
C35_UnregisterTouchesOnlyItsClient ==
    [][\A C \in Clients :
         HubUnregister(C) =>
            /\ \A d \in Clients \ {C} :
                  /\ (d \in clients') = (d \in clients)
                  /\ clientRooms'[d] = clientRooms[d]
                  /\ \A R \in RoomNames : (d \in Members(R)') = (d \in Members(R))
                  /\ send'[d] = send[d] /\ sendClosed'[d] = sendClosed[d]
            /\ metrics'.TotalConnections = metrics.TotalConnections
            /\ metrics'.TotalMessagesSent = metrics.TotalMessagesSent
            /\ metrics'.TotalMessagesRecv = metrics.TotalMessagesRecv
            /\ \A R \in (DOMAIN rooms) \ (DOMAIN rooms') : rooms[R] = {C}]_vars

\* C35's case: a connection was just unregistered out of a room that another
\* registered connection, with a message in its buffer, is still a member of.
C35_Witness ==
    /\ last = "unregisterRooms"
    /\ \E d \in clients :
          /\ \E R \in DOMAIN rooms : d \in rooms[R]
          /\ send[d] # << >>
          /\ \E C \in Clients \ clients : sendClosed[C]

\* C36: in no reachable state has an execution unit pushed onto an outbound
\* buffer that was already closed: neither the fan-out of the control loop
\* nor a sendMessage called from a read path.
C36_NoPushOnClosedBuffer ==
    /\ ~(hubPc = "panic" /\ last = "broadcast")
    /\ last \notin {"pongPanic", "ackPanic"}

\* C37: in every reachable state, every connection that is a member of some
\* room in the room index is in the registry.
C37_RoomMembersAreRegistered ==
    \A R \in DOMAIN rooms : rooms[R] \subseteq clients

\* C38: a connection's outbound buffer is closed at most once over the
\* connection's whole life, whatever the interleaving of client disconnect,
\* duplicate unregisters, backpressure eviction and hub shutdown: no
\* Unregister and no shutdown ends in the panic of a second close.
C38_BufferClosedAtMostOnce ==
    ~(hubPc = "panic"
      /\ last \in {"unregister", "unregisterRooms", "unregisterNoop", "shutdown"})

\* C38's case: every connection's buffer is closed, one of them had entered
\* its disconnect path, and a further Unregister was just processed as a
\* no-op by the running control loop.
C38_Witness ==
    /\ last = "unregisterNoop"
    /\ hubPc = "select"
    /\ \A c \in Clients : sendClosed[c]
    /\ \E c \in Clients : readPc[c].at \in {"close", "closed"}

\* C39: the received-message counter equals the number of inbound messages
\* that were decoded and handled, summed over all connections, whenever no
\* read path stands between handling a message and having counted it.
C39_ReceivedCounterCountsEveryFrame ==
    (\A c \in Clients : readPc[c].at \notin {"count", "store"})
       => metrics.TotalMessagesRecv = nHandled

\* The number of messages this step appends to the buffers of the
\* connections in S.
RECURSIVE Appended(_)
Appended(S) ==
    IF S = {} THEN 0
    ELSE LET c == CHOOSE x \in S : TRUE
         IN (Len(send'[c]) - Len(send[c])) + Appended(S \ {c})

\* C40: the sent-message counter grows by exactly one for each message a
\* broadcast appends to a target's outbound buffer and by nothing else: a
\* push refused by a full buffer is not counted, and a step that is not the
\* processing of a broadcast (a pong or ack sent directly among them) leaves
\* the counter as it is.
C40_SentCounterCountsBroadcastPushes ==
    [][IF BroadcastStep
       THEN metrics'.TotalMessagesSent = metrics.TotalMessagesSent + Appended(Clients)
       ELSE metrics'.TotalMessagesSent = metrics.TotalMessagesSent]_vars

\* C40's case: a broadcast was just pushed to one buffer and refused by a
\* full one that holds a pong sent directly, with one message counted.
C40_Witness ==
    /\ last = "broadcast"
    /\ hubPc = "blocked"
    /\ metrics.TotalMessagesSent = 1
    /\ \E c \in Clients : send[c] # << >> /\ IsPong(send[c][1])

====
